---- MODULE Spec2Model ----
(***************************************************************************)
(* The data pipeline of 5-TidyData.ipynb: a CSV of basketball games is     *)
(* loaded, melted to one row per (game, team), the days of rest per team   *)
(* are computed, pivoted back to one row per game and joined onto the      *)
(* game table; then the win statistics per team are aggregated and mapped  *)
(* back onto each game.  Every notebook cell that assigns a variable is    *)
(* one action; pc is the next cell to run.                                 *)
(*                                                                         *)
(* A missing value (NaN / NaT) is the empty tuple NA, a present value v is *)
(* the one-element tuple <<v>>.                                            *)
(***************************************************************************)
EXTENDS Integers, Sequences, FiniteSets, TLC

VARIABLES csv, games, tidy, by_game, df, wins, win_percent, pc

vars == <<csv, games, tidy, by_game, df, wins, win_percent, pc>>

(***************************************************************************)
(* Bounds of the explored inputs.                                          *)
(***************************************************************************)
MaxRows == 3

MaxDay == 3

MaxPts == 2

MaxOther == 1

Teams == {"ATL", "BOS"}

(***************************************************************************)
(* Missing values.                                                         *)
(***************************************************************************)
NA == << >>

Some(v) == <<v>>

IsNA(x) == x = NA

Val(x) == x[1]

(***************************************************************************)
(* Generic helpers.                                                        *)
(***************************************************************************)
Range(s) == {s[i] : i \in 1..Len(s)}

\* order of the (game_id, date) keys: game_id first, then date, NaT last
KeyLess(a, b) ==
  \/ a.game_id < b.game_id
  \/ /\ a.game_id = b.game_id
     /\ ~IsNA(a.date)
     /\ (IsNA(b.date) \/ Val(a.date) < Val(b.date))

RECURSIVE StableInsert(_, _)
\* insert x into the sorted sequence s after the last element that is not
\* greater than x, so that rows with equal keys keep their order
StableInsert(s, x) ==
  IF s = << >> THEN <<x>>
  ELSE IF KeyLess(x, s[Len(s)]) THEN Append(StableInsert(SubSeq(s, 1, Len(s) - 1), x), s[Len(s)])
  ELSE Append(s, x)

RECURSIVE StableSort(_)
\* a stable sort by the (game_id, date) key
StableSort(s) ==
  IF s = << >> THEN << >>
  ELSE StableInsert(StableSort(SubSeq(s, 1, Len(s) - 1)), s[Len(s)])

Key(r) == [game_id |-> r.game_id, date |-> r.date]

Keys(t) == {Key(t[i]) : i \in 1..Len(t)}

RECURSIVE GCD(_, _)
GCD(a, b) == IF b = 0 THEN a ELSE GCD(b, a % b)

\* the quotient n / d (d > 0) as a fraction in lowest terms
Frac(n, d) == <<n \div GCD(n, d), d \div GCD(n, d)>>

(***************************************************************************)
(* The CSV file: one record per line.  date is the text of the Date column *)
(* as month and day of 2015, the teams and points are the four columns the *)
(* loader keeps, other counts the non-missing fields of the columns the    *)
(* loader does not keep (start time, box score, overtime, notes).          *)
(*                                                                         *)
(* Two families of files are explored: files whose games vary in date and  *)
(* pairing, and files whose games vary in score and pairing.  Both hold    *)
(* lines with missing fields.                                              *)
(***************************************************************************)
DateText(k) == IF k = 1 THEN [mon |-> 10, day |-> 31] ELSE [mon |-> 11, day |-> k - 1]

CsvDates == {DateText(k) : k \in 1..MaxDay}

Points == 1..MaxPts

\* a tie, a home win and an away win
Scores == {<<1, 1>>, <<1, MaxPts>>, <<MaxPts, 1>>}

\* a played game, every field present
GameRow(d, away, home, score) ==
  [date |-> Some(d), away_team |-> Some(away), away_points |-> Some(score[1]),
   home_team |-> Some(home), home_points |-> Some(score[2]), other |-> MaxOther]

\* the pairings: two different teams
Pairings == {p \in Teams \X Teams : p[1] # p[2]}

\* games on any of the dates, all won by the home team
DatedRows == {GameRow(d, p[1], p[2], <<1, MaxPts>>) : d \in CsvDates, p \in Pairings}

\* games of the first date with any of the scores
ScoredRows == {GameRow(DateText(1), p[1], p[2], sc) : p \in Pairings, sc \in Scores}

FirstTeam == CHOOSE t \in Teams : TRUE

OtherTeam == CHOOSE t \in Teams : t # FirstTeam

\* lines with missing fields: a section header (only the date column filled),
\* a game without date, and a game of the last date without away team and
\* home points (three of the kept fields and the start time)
DefectRows ==
  {[date |-> Some(DateText(1)), away_team |-> NA, away_points |-> NA,
    home_team |-> NA, home_points |-> NA, other |-> 0],
   [date |-> NA, away_team |-> Some(OtherTeam), away_points |-> Some(1),
    home_team |-> Some(FirstTeam), home_points |-> Some(MaxPts), other |-> MaxOther],
   [date |-> Some(DateText(MaxDay)), away_team |-> NA, away_points |-> Some(1),
    home_team |-> Some(FirstTeam), home_points |-> NA, other |-> MaxOther]}

\* the files of up to MaxRows lines over the given lines
Tables(rows) == UNION {[1..n -> rows] : n \in 0..MaxRows}

CsvTables == Tables(DatedRows \cup DefectRows) \cup Tables(ScoredRows \cup DefectRows)

(***************************************************************************)
(* Loader (cell "games = pd.read_csv(...)").                               *)
(***************************************************************************)
Thresh == 4

\* pd.read_csv: the rows get the default index 0, 1, 2, ...
read_csv(c) ==
  [i \in 1..Len(c) |->
     [game_id |-> i - 1, date |-> c[i].date,
      away_team |-> c[i].away_team, away_points |-> c[i].away_points,
      home_team |-> c[i].home_team, home_points |-> c[i].home_points,
      other |-> c[i].other]]

\* number of non-missing fields of a row, over all the columns of the file
NonMissing(r) ==
  Cardinality({f \in {"date", "away_team", "away_points", "home_team", "home_points"} :
                 ~IsNA(r[f])}) + r.other

\* a variant of dropna that counts after the column selection, over the five
\* kept columns only
dropna_selected(t, thresh) == SelectSeq(t, LAMBDA r : NonMissing(r) - r.other >= thresh)

\* .dropna(thresh=4): keep the rows with at least thresh non-missing fields
dropna(t, thresh) == SelectSeq(t, LAMBDA r : NonMissing(r) >= thresh)

DaysBefore == <<0, 31, 59, 90, 120, 151, 181, 212, 243, 273, 304, 334>>

\* pd.to_datetime(..., format='%a, %b %d, %Y'): the day as an ordinal (day
\* of the year 2015); a missing date stays missing (NaT)
to_datetime(d) == IF IsNA(d) THEN NA ELSE Some(DaysBefore[Val(d).mon] + Val(d).day)

\* [['date', 'away_team', ...]].assign(date=...).set_index('date', append=True)
\* .rename_axis(["game_id", "date"])
SelectColumns(t) ==
  [i \in 1..Len(t) |->
     [game_id |-> t[i].game_id, date |-> to_datetime(t[i].date),
      away_team |-> t[i].away_team, away_points |-> t[i].away_points,
      home_team |-> t[i].home_team, home_points |-> t[i].home_points]]

sort_index(t) == StableSort(t)

Loader(c) == sort_index(SelectColumns(dropna(read_csv(c), Thresh)))

(***************************************************************************)
(* Reshaper wide -> long (cell "tidy = pd.melt(...)").                     *)
(***************************************************************************)
\* a variant of melt that reads every value from the first value column
melt_first_column(frame, id_vars, value_vars, var_name, value_name) ==
  [k \in 1..(Len(value_vars) * Len(frame)) |->
     LET v == value_vars[((k - 1) \div Len(frame)) + 1]
         r == frame[((k - 1) % Len(frame)) + 1]
     IN  [f \in Range(id_vars) \cup {var_name, value_name} |->
            IF f = var_name THEN v ELSE IF f = value_name THEN r[value_vars[1]] ELSE r[f]]]

\* pd.melt: for each value column in turn, one row per row of the frame,
\* repeating the id columns; var_name holds the name of the value column and
\* value_name its value
melt(frame, id_vars, value_vars, var_name, value_name) ==
  [k \in 1..(Len(value_vars) * Len(frame)) |->
     LET v == value_vars[((k - 1) \div Len(frame)) + 1]
         r == frame[((k - 1) % Len(frame)) + 1]
     IN  [f \in Range(id_vars) \cup {var_name, value_name} |->
            IF f = var_name THEN v ELSE IF f = value_name THEN r[v] ELSE r[f]]]

\* .sort_values(['game_id', 'date']) (a stable sort on several columns)
sort_values(t) == StableSort(t)

\* games.reset_index() turns the index levels game_id and date into columns,
\* which the rows of the model already are
MeltGames(g) ==
  sort_values(melt(g, <<"game_id", "date">>, <<"away_team", "home_team">>, "variable", "team"))

(***************************************************************************)
(* Rest calculator (cell "tidy['rest'] = ...").                            *)
(***************************************************************************)
\* the positions before i of the rows of the same group (team) as row i
EarlierInGroup(t, i) == {j \in 1..(i - 1) : t[j].team = t[i].team}

\* a variant of RestOf without the groupby: the difference to the previous
\* row of tidy, whatever its team
RestOf_ungrouped(t, i) ==
  IF i = 1 \/ IsNA(t[i].date) \/ IsNA(t[i - 1].date) THEN NA
  ELSE Some(Val(t[i].date) - Val(t[i - 1].date) - 1)

\* groupby('team').date.diff().dt.days - 1: the difference to the previous
\* row of the same team; missing for the first row of a team, for a row
\* without team (groupby drops it) and when one of the two dates is missing
RestOf(t, i) ==
  IF IsNA(t[i].team) \/ EarlierInGroup(t, i) = {} THEN NA
  ELSE LET j == CHOOSE j \in EarlierInGroup(t, i) : \A k \in EarlierInGroup(t, i) : k <= j
       IN  IF IsNA(t[i].date) \/ IsNA(t[j].date) THEN NA
           ELSE Some(Val(t[i].date) - Val(t[j].date) - 1)

AssignRest(t) ==
  [i \in 1..Len(t) |->
     [game_id |-> t[i].game_id, date |-> t[i].date, variable |-> t[i].variable,
      team |-> t[i].team, rest |-> RestOf(t, i)]]

(***************************************************************************)
(* Reshaper long -> wide (cell "by_game = pd.pivot_table(...)").           *)
(***************************************************************************)
RECURSIVE SeqOfSet(_)
SeqOfSet(S) ==
  IF S = {} THEN << >>
  ELSE LET x == CHOOSE x \in S : TRUE IN <<x>> \o SeqOfSet(S \ {x})

RECURSIVE SumSeq(_)
SumSeq(s) == IF s = << >> THEN 0 ELSE s[1] + SumSeq(Tail(s))

\* the groups of groupby(['game_id', 'date', 'variable']): a row whose date
\* is missing belongs to no group
PivotGroups(t) ==
  {[game_id |-> t[i].game_id, date |-> t[i].date, variable |-> t[i].variable] :
     i \in {j \in 1..Len(t) : ~IsNA(t[j].date)}}

\* aggfunc mean of the rest values of a group, missing values skipped; each
\* group holds the single row of its game and team, so the quotient is exact
GroupMean(t, g) ==
  LET vals == SelectSeq(t, LAMBDA r : /\ r.game_id = g.game_id /\ r.date = g.date
                                      /\ r.variable = g.variable /\ ~IsNA(r.rest))
  IN  IF vals = << >> THEN NA
      ELSE Some(SumSeq([i \in 1..Len(vals) |-> Val(vals[i].rest)]) \div Len(vals))

\* the aggregated groups; with dropAllNaN the groups without a value are
\* dropped before unstacking (agged.dropna(how='all') of current pandas)
Agged(t, dropAllNaN) ==
  {g \in PivotGroups(t) : ~dropAllNaN \/ ~IsNA(GroupMean(t, g))}

RestColumn(variable) == IF variable = "away_team" THEN "away_rest" ELSE "home_rest"

\* a variant of pivot_table that renames the columns the wrong way round
pivot_table_swapped(t, dropAllNaN) ==
  LET agged == Agged(t, dropAllNaN)
      index == {[game_id |-> g.game_id, date |-> g.date] : g \in agged}
      cell(k, v) == LET g == [game_id |-> k.game_id, date |-> k.date, variable |-> v]
                    IN  IF g \in agged THEN GroupMean(t, g) ELSE NA
  IN  [cols |-> {RestColumn(g.variable) : g \in agged},
       rows |-> StableSort([i \in 1..Cardinality(index) |->
                  LET k == SeqOfSet(index)[i]
                  IN  [game_id |-> k.game_id, date |-> k.date,
                       away_rest |-> cell(k, "home_team"),
                       home_rest |-> cell(k, "away_team")]])]

\* unstack the variable level into columns and rename them; a cell without
\* group is missing, a variable without group gives no column
pivot_table(t, dropAllNaN) ==
  LET agged == Agged(t, dropAllNaN)
      index == {[game_id |-> g.game_id, date |-> g.date] : g \in agged}
      cell(k, v) == LET g == [game_id |-> k.game_id, date |-> k.date, variable |-> v]
                    IN  IF g \in agged THEN GroupMean(t, g) ELSE NA
  IN  [cols |-> {RestColumn(g.variable) : g \in agged},
       rows |-> StableSort([i \in 1..Cardinality(index) |->
                  LET k == SeqOfSet(index)[i]
                  IN  [game_id |-> k.game_id, date |-> k.date,
                       away_rest |-> cell(k, "away_team"),
                       home_rest |-> cell(k, "home_team")]])]

(***************************************************************************)
(* Join back onto the game table (cell "df = pd.concat(...)").             *)
(***************************************************************************)
\* the row of table t with key k
RowAt(t, k) == CHOOSE r \in Range(t) : Key(r) = k

\* a variant of concat that joins on the keys both tables have (join='inner')
concat_inner(g, bg) ==
  LET index == Keys(g) \cap Keys(bg.rows)
  IN  StableSort([i \in 1..Cardinality(index) |->
        LET k == SeqOfSet(index)[i]
        IN  [game_id |-> k.game_id, date |-> k.date,
             away_team |-> RowAt(g, k).away_team, away_points |-> RowAt(g, k).away_points,
             home_team |-> RowAt(g, k).home_team, home_points |-> RowAt(g, k).home_points,
             away_rest |-> RowAt(bg.rows, k).away_rest,
             home_rest |-> RowAt(bg.rows, k).home_rest]])

\* pd.concat([games, by_game], axis='columns'): an outer join on the index;
\* a cell of a table that has no row with the key is missing
concat(g, bg) ==
  LET index == Keys(g) \cup Keys(bg.rows)
      left(k, f) == IF k \in Keys(g) THEN RowAt(g, k)[f] ELSE NA
      right(k, f) == IF k \in Keys(bg.rows) THEN RowAt(bg.rows, k)[f] ELSE NA
  IN  StableSort([i \in 1..Cardinality(index) |->
        LET k == SeqOfSet(index)[i]
        IN  [game_id |-> k.game_id, date |-> k.date,
             away_team |-> left(k, "away_team"), away_points |-> left(k, "away_points"),
             home_team |-> left(k, "home_team"), home_points |-> left(k, "home_points"),
             away_rest |-> right(k, "away_rest"), home_rest |-> right(k, "home_rest")]])

(***************************************************************************)
(* Outcome variable (cell "df['home_win'] = ...").                         *)
(***************************************************************************)
\* a variant of HomeWinOf that counts a tie as a home win (>=)
HomeWinOf_geq(r) ==
  /\ ~IsNA(r.home_points)
  /\ ~IsNA(r.away_points)
  /\ Val(r.home_points) >= Val(r.away_points)

\* home_points > away_points; a comparison with a missing value is False
HomeWinOf(r) ==
  /\ ~IsNA(r.home_points)
  /\ ~IsNA(r.away_points)
  /\ Val(r.home_points) > Val(r.away_points)

AssignHomeWin(d) ==
  [i \in 1..Len(d) |->
     [f \in DOMAIN d[i] \cup {"home_win"} |->
        IF f = "home_win" THEN HomeWinOf(d[i]) ELSE d[i][f]]]

(***************************************************************************)
(* Win aggregator (cells 1.1 to 1.3; their bodies are loaded from          *)
(* solutions/solutions_tidy.py and are modelled from the notebook's text). *)
(***************************************************************************)
\* 1.1: the id columns now include home_win
id_vars == <<"game_id", "date", "home_win">>

value_vars == <<"away_team", "home_team">>

MeltDf(d) == melt(d, id_vars, value_vars, "home_or_away", "team")

\* 1.2: the team of the row won
WinOf(r) ==
  \/ r.home_win /\ r.home_or_away = "home_team"
  \/ ~r.home_win /\ r.home_or_away = "away_team"

AssignWin(g) ==
  [i \in 1..Len(g) |->
     [f \in DOMAIN g[i] \cup {"win"} |-> IF f = "win" THEN WinOf(g[i]) ELSE g[i][f]]]

\* 1.3: groupby(['team', 'home_or_away']); rows without team are in no group
WinGroups(g) ==
  {[team |-> Val(g[i].team), home_or_away |-> g[i].home_or_away] :
     i \in {j \in 1..Len(g) : ~IsNA(g[j].team)}}

GroupRows(g, k) ==
  {i \in 1..Len(g) : g[i].team = Some(k.team) /\ g[i].home_or_away = k.home_or_away}

\* a variant of Aggregate that sums home_win instead of win
Aggregate_home_win(g) ==
  {[team |-> k.team, home_or_away |-> k.home_or_away,
    n_wins |-> Cardinality({i \in GroupRows(g, k) : g[i].home_win}),
    n_games |-> Cardinality(GroupRows(g, k)),
    win_pct |-> Frac(Cardinality({i \in GroupRows(g, k) : g[i].home_win}),
                     Cardinality(GroupRows(g, k)))] : k \in WinGroups(g)}

\* .agg({'n_wins': 'sum', 'n_games': 'count', 'win_pct': 'mean'})
Aggregate(g) ==
  {[team |-> k.team, home_or_away |-> k.home_or_away,
    n_wins |-> Cardinality({i \in GroupRows(g, k) : g[i].win}),
    n_games |-> Cardinality(GroupRows(g, k)),
    win_pct |-> Frac(Cardinality({i \in GroupRows(g, k) : g[i].win}),
                     Cardinality(GroupRows(g, k)))] : k \in WinGroups(g)}

(***************************************************************************)
(* Strength joiner (steps 2 and 3, also loaded from the solutions file).   *)
(***************************************************************************)
RECURSIVE SumField(_, _)
\* the sum of field f over the records of the set S
SumField(S, f) ==
  IF S = {} THEN 0
  ELSE LET x == CHOOSE x \in S : TRUE IN x[f] + SumField(S \ {x}, f)

\* a variant of WinPercent that averages the win_pct of the team's rows
WinPercent_mean(w) ==
  [t \in {r.team : r \in w} |->
     LET rows == {r \in w : r.team = t}
         h == CHOOSE r \in rows : TRUE
         a == CHOOSE r \in rows : rows = {h} \/ r # h
     IN  IF rows = {h} THEN h.win_pct
         ELSE Frac(h.n_wins * a.n_games + a.n_wins * h.n_games, 2 * h.n_games * a.n_games)]

\* step 2: per team, the wins over the games, home and away together
WinPercent(w) ==
  [t \in {r.team : r \in w} |->
     Frac(SumField({r \in w : r.team = t}, "n_wins"),
          SumField({r \in w : r.team = t}, "n_games"))]

\* Series.map(win_percent): a team without entry maps to missing
MapStrength(team, wp) ==
  IF IsNA(team) \/ Val(team) \notin DOMAIN wp THEN NA ELSE Some(wp[Val(team)])

\* a difference of two columns; missing when an operand is missing
Minus(a, b) == IF IsNA(a) \/ IsNA(b) THEN NA ELSE Some(Val(a) - Val(b))

\* a variant of AssignStrength that maps the strengths the wrong way round
AssignStrength_swapped(d, wp) ==
  [i \in 1..Len(d) |->
     [f \in DOMAIN d[i] \cup {"away_strength", "home_strength", "point_diff", "rest_diff"} |->
        CASE f = "away_strength" -> MapStrength(d[i].home_team, wp)
          [] f = "home_strength" -> MapStrength(d[i].away_team, wp)
          [] f = "point_diff" -> Minus(d[i].home_points, d[i].away_points)
          [] f = "rest_diff" -> Minus(d[i].home_rest, d[i].away_rest)
          [] OTHER -> d[i][f]]]

AssignStrength(d, wp) ==
  [i \in 1..Len(d) |->
     [f \in DOMAIN d[i] \cup {"away_strength", "home_strength", "point_diff", "rest_diff"} |->
        CASE f = "away_strength" -> MapStrength(d[i].away_team, wp)
          [] f = "home_strength" -> MapStrength(d[i].home_team, wp)
          [] f = "point_diff" -> Minus(d[i].home_points, d[i].away_points)
          [] f = "rest_diff" -> Minus(d[i].home_rest, d[i].away_rest)
          [] OTHER -> d[i][f]]]

(***************************************************************************)
(* The script.                                                             *)
(***************************************************************************)
Init ==
  /\ csv \in CsvTables
  /\ games = << >>
  /\ tidy = << >>
  /\ by_game = [cols |-> {}, rows |-> << >>]
  /\ df = << >>
  /\ wins = {}
  /\ win_percent = << >>
  /\ pc = "load"

Load ==
  /\ pc = "load"
  /\ games' = Loader(csv)
  /\ pc' = "melt"
  /\ UNCHANGED <<csv, tidy, by_game, df, wins, win_percent>>

Melt ==
  /\ pc = "melt"
  /\ tidy' = MeltGames(games)
  /\ pc' = "rest"
  /\ UNCHANGED <<csv, games, by_game, df, wins, win_percent>>

Rest ==
  /\ pc = "rest"
  /\ tidy' = AssignRest(tidy)
  /\ pc' = "pivot"
  /\ UNCHANGED <<csv, games, by_game, df, wins, win_percent>>

\* the notebook pins no pandas version: older releases keep the groups whose
\* mean is missing, current ones drop them, so both outcomes are possible
Pivot ==
  /\ pc = "pivot"
  /\ \E dropAllNaN \in BOOLEAN : by_game' = pivot_table(tidy, dropAllNaN)
  /\ pc' = "concat"
  /\ UNCHANGED <<csv, games, tidy, df, wins, win_percent>>

Concat ==
  /\ pc = "concat"
  /\ df' = concat(games, by_game)
  /\ pc' = "home_win"
  /\ UNCHANGED <<csv, games, tidy, by_game, wins, win_percent>>

HomeWin ==
  /\ pc = "home_win"
  /\ df' = AssignHomeWin(df)
  /\ pc' = "melt_df"
  /\ UNCHANGED <<csv, games, tidy, by_game, wins, win_percent>>

\* the cell reassigns the name games to the melted table
MeltWins ==
  /\ pc = "melt_df"
  /\ games' = MeltDf(df)
  /\ pc' = "win"
  /\ UNCHANGED <<csv, tidy, by_game, df, wins, win_percent>>

Win ==
  /\ pc = "win"
  /\ games' = AssignWin(games)
  /\ pc' = "aggregate"
  /\ UNCHANGED <<csv, tidy, by_game, df, wins, win_percent>>

Agg ==
  /\ pc = "aggregate"
  /\ wins' = Aggregate(games)
  /\ pc' = "win_percent"
  /\ UNCHANGED <<csv, games, tidy, by_game, df, win_percent>>

Percent ==
  /\ pc = "win_percent"
  /\ win_percent' = WinPercent(wins)
  /\ pc' = "strength"
  /\ UNCHANGED <<csv, games, tidy, by_game, df, wins>>

\* df has the rest columns that by_game has
Strength ==
  /\ pc = "strength"
  /\ {"away_rest", "home_rest"} \subseteq by_game.cols
  /\ df' = AssignStrength(df, win_percent)
  /\ pc' = "done"
  /\ UNCHANGED <<csv, games, tidy, by_game, wins, win_percent>>

\* df['home_rest'] or df['away_rest'] raises KeyError when by_game has no
\* such column
StrengthKeyError ==
  /\ pc = "strength"
  /\ ~({"away_rest", "home_rest"} \subseteq by_game.cols)
  /\ pc' = "error"
  /\ UNCHANGED <<csv, games, tidy, by_game, df, wins, win_percent>>

Next ==
  \/ Load
  \/ Melt
  \/ Rest
  \/ Pivot
  \/ Concat
  \/ HomeWin
  \/ MeltWins
  \/ Win
  \/ Agg
  \/ Percent
  \/ Strength
  \/ StrengthKeyError

Spec == Init /\ [][Next]_vars

(***************************************************************************)
(* Properties.  The name games holds the game table from the loader until  *)
(* the cell of step 1.1 reassigns it to the melted table.                  *)
(***************************************************************************)
GamesIsWide == pc \in {"melt", "rest", "pivot", "concat", "home_win", "melt_df"}

TidyMelted == pc \in {"rest", "pivot", "concat", "home_win", "melt_df"}

TidyHasRest == pc \notin {"load", "melt", "rest"}

\* the positions of the rows of tidy of game g with the given variable
TidyRowsOf(g, v) ==
  {i \in 1..Len(tidy) : tidy[i].game_id = g.game_id /\ tidy[i].variable = v}

\* C1: after the melt, tidy has exactly two rows per game of games, twice as
\* many rows as games: one with variable away_team holding the game's away
\* team and one with variable home_team holding its home team, both with the
\* game's own game_id and date, and no other rows.
C1_MeltTwoRowsPerGame ==
  TidyMelted =>
    /\ Len(tidy) = 2 * Len(games)
    /\ \A n \in 1..Len(games) : \A v \in {"away_team", "home_team"} :
         /\ Cardinality(TidyRowsOf(games[n], v)) = 1
         /\ \A i \in TidyRowsOf(games[n], v) :
              tidy[i].team = games[n][v] /\ tidy[i].date = games[n].date
    /\ \A i \in 1..Len(tidy) :
         /\ tidy[i].variable \in {"away_team", "home_team"}
         /\ \E n \in 1..Len(games) : games[n].game_id = tidy[i].game_id

\* a melted table of at least two games whose rows differ in date and team
C1_Witness ==
  /\ pc = "rest"
  /\ Len(games) >= 2
  /\ Len(tidy) = 2 * Len(games)
  /\ tidy[1].team # tidy[2].team
  /\ tidy[1].date # tidy[3].date
  /\ ~IsNA(tidy[1].team) /\ ~IsNA(tidy[2].team)

\* the rows of tidy of team t, in the order of tidy
TeamRows(t) == SelectSeq(tidy, LAMBDA r : r.team = Some(t))

\* the days between two dates minus one, missing when a date is missing
DaysOfRest(d, dprev) ==
  IF IsNA(d) \/ IsNA(dprev) THEN NA ELSE Some((Val(d) - Val(dprev)) - 1)

\* C2: for every team, the first of its rows in tidy has no rest value and
\* every other row has as rest the number of days between its date and the
\* date of the team's immediately preceding row, minus one (no value when
\* one of the two dates is missing); the rest values of a team are those
\* computed from the team's own rows alone.
C2_RestPerTeam ==
  TidyHasRest =>
    \A t \in Teams :
      LET rows == TeamRows(t)
      IN  \A p \in 1..Len(rows) :
            rows[p].rest =
              IF p = 1 THEN NA ELSE DaysOfRest(rows[p].date, rows[p - 1].date)

\* a team whose second game follows its first on the next day (rest 0) while
\* a row of another team lies between the two in tidy
C2_Witness ==
  /\ pc = "pivot"
  /\ \E i, j \in 1..Len(tidy) :
       /\ j + 1 < i
       /\ tidy[i].team = tidy[j].team
       /\ tidy[i].rest = Some(0)
       /\ IsNA(tidy[j].rest)
       /\ tidy[i - 1].team # tidy[i].team

\* the number of non-missing fields of line i of the file
FieldsPresent(i) ==
  (IF IsNA(csv[i].date) THEN 0 ELSE 1) + (IF IsNA(csv[i].away_team) THEN 0 ELSE 1)
  + (IF IsNA(csv[i].away_points) THEN 0 ELSE 1) + (IF IsNA(csv[i].home_team) THEN 0 ELSE 1)
  + (IF IsNA(csv[i].home_points) THEN 0 ELSE 1) + csv[i].other

\* C9: after loading, the game_id of a game is the position of its line in
\* the file and is unique among the games; games has exactly the columns
\* away_team, away_points, home_team, home_points and the index (game_id,
\* date), in ascending order of it; and a line of the file is retained if and
\* only if it has at least 4 non-missing fields over all its columns.
C9_Loader ==
  GamesIsWide =>
    /\ \A i, j \in 1..Len(games) : i < j => games[i].game_id # games[j].game_id
    /\ \A i \in 1..Len(games) :
         /\ games[i].game_id + 1 \in 1..Len(csv)
         /\ games[i].away_team = csv[games[i].game_id + 1].away_team
         /\ games[i].away_points = csv[games[i].game_id + 1].away_points
         /\ games[i].home_team = csv[games[i].game_id + 1].home_team
         /\ games[i].home_points = csv[games[i].game_id + 1].home_points
         /\ IsNA(games[i].date) = IsNA(csv[games[i].game_id + 1].date)
         /\ DOMAIN games[i] = {"game_id", "date", "away_team", "away_points",
                               "home_team", "home_points"}
    /\ \A i, j \in 1..Len(games) : i < j => KeyLess(games[i], games[j])
    /\ \A n \in 1..Len(csv) :
         (\E i \in 1..Len(games) : games[i].game_id = n - 1) <=> FieldsPresent(n) >= 4

\* a file with a dropped line before a retained one, and a retained line
\* without home points that has only three non-missing fields among the
\* columns the loader keeps
C9_Witness ==
  /\ pc = "melt"
  /\ Len(csv) >= 2
  /\ FieldsPresent(1) < 4
  /\ \E i \in 1..Len(games) :
       /\ games[i].game_id > 0
       /\ IsNA(games[i].home_points)
       /\ FieldsPresent(games[i].game_id + 1) >= 4
       /\ FieldsPresent(games[i].game_id + 1) - csv[games[i].game_id + 1].other = 3

ByGameBuilt == pc \in {"concat", "home_win", "melt_df"}

\* the rest value of the row of tidy of the game with key k and variable v
TidyRest(k, v) ==
  LET i == CHOOSE i \in 1..Len(tidy) :
             tidy[i].game_id = k.game_id /\ tidy[i].variable = v
  IN  tidy[i].rest

\* the rest values of by_game are those of tidy
ByGameValues ==
  \A n \in 1..Len(by_game.rows) :
    /\ by_game.rows[n].away_rest = TidyRest(by_game.rows[n], "away_team")
    /\ by_game.rows[n].home_rest = TidyRest(by_game.rows[n], "home_team")

\* C3 as stated: by_game has exactly one row per game of games, indexed by
\* (game_id, date), with exactly the two columns away_rest and home_rest (of
\* a table that has games) holding the rest values of the game's two rows of
\* tidy, also for the games where one or both rest values are missing.
C3_PivotOneRowPerGame ==
  ByGameBuilt =>
    /\ Len(by_game.rows) = Len(games)
    /\ Keys(by_game.rows) = Keys(games)
    /\ Len(games) > 0 => by_game.cols = {"away_rest", "home_rest"}
    /\ ByGameValues

\* C3 amended: by_game has at most one row per game of games, indexed by
\* (game_id, date), and only for games that have a date; every game that has
\* a date and at least one rest value has its row; the columns are among
\* away_rest and home_rest, and a column that holds a value exists; the
\* values are the rest values of the game's two rows of tidy, missing where
\* those are missing.
C3_PivotAmended ==
  ByGameBuilt =>
    /\ Cardinality(Keys(by_game.rows)) = Len(by_game.rows)
    /\ Keys(by_game.rows) \subseteq {k \in Keys(games) : ~IsNA(k.date)}
    /\ \A n \in 1..Len(games) :
         (/\ ~IsNA(games[n].date)
          /\ \E v \in {"away_team", "home_team"} : ~IsNA(TidyRest(games[n], v)))
         => Key(games[n]) \in Keys(by_game.rows)
    /\ by_game.cols \subseteq {"away_rest", "home_rest"}
    /\ \A n \in 1..Len(by_game.rows) : \A c \in {"away_rest", "home_rest"} :
         ~IsNA(by_game.rows[n][c]) => c \in by_game.cols
    /\ ByGameValues

\* by_game holds a game with one rest value missing and the other present,
\* next to a game of games that has no row in by_game
C3_Witness ==
  /\ pc = "concat"
  /\ \E n \in 1..Len(by_game.rows) :
       IsNA(by_game.rows[n].away_rest) /\ by_game.rows[n].home_rest = Some(0)
  /\ Keys(games) \ Keys(by_game.rows) # {}

DfJoined == pc \in {"home_win", "melt_df"}

\* C4: after the join df has exactly one row per game of games, with the same
\* set of (game_id, date) keys; the team and points columns of a row are
\* those of games; its rest columns are those of the row of by_game with the
\* same key, or missing when by_game has no such row.
C4_ConcatFrame ==
  DfJoined =>
    /\ Len(df) = Len(games)
    /\ Cardinality(Keys(df)) = Len(df)
    /\ Keys(df) = Keys(games)
    /\ \A i \in 1..Len(df) : \A n \in 1..Len(games) :
         Key(df[i]) = Key(games[n]) =>
           /\ df[i].away_team = games[n].away_team
           /\ df[i].away_points = games[n].away_points
           /\ df[i].home_team = games[n].home_team
           /\ df[i].home_points = games[n].home_points
    /\ \A i \in 1..Len(df) :
         /\ \A n \in 1..Len(by_game.rows) :
              Key(df[i]) = Key(by_game.rows[n]) =>
                /\ df[i].away_rest = by_game.rows[n].away_rest
                /\ df[i].home_rest = by_game.rows[n].home_rest
         /\ Key(df[i]) \notin Keys(by_game.rows) =>
              IsNA(df[i].away_rest) /\ IsNA(df[i].home_rest)

\* df holds a game that by_game lacks and a game whose rest comes from by_game
C4_Witness ==
  /\ pc = "home_win"
  /\ \E i, j \in 1..Len(df) :
       /\ Key(df[i]) \notin Keys(by_game.rows)
       /\ Key(df[j]) \in Keys(by_game.rows)
       /\ ~IsNA(df[j].away_rest)
       /\ ~IsNA(df[i].home_points)

HasHomeWin == pc \notin {"load", "melt", "rest", "pivot", "concat", "home_win"}

\* C10: for every game of df, home_win is True if and only if home_points is
\* strictly greater than away_points; a game with equal points has home_win
\* False; home_win is one of the two truth values for every game.
C10_HomeWinStrict ==
  HasHomeWin =>
    \A i \in 1..Len(df) :
      /\ df[i].home_win \in BOOLEAN
      /\ df[i].home_win <=>
           \E h, a \in Points : /\ df[i].home_points = Some(h)
                                /\ df[i].away_points = Some(a)
                                /\ h > a
      /\ (~IsNA(df[i].home_points) /\ df[i].home_points = df[i].away_points)
           => ~df[i].home_win

\* df holds a tied game (home_win False) and a game the home team won
C10_Witness ==
  /\ pc = "melt_df"
  /\ \E i, j \in 1..Len(df) :
       /\ ~IsNA(df[i].home_points)
       /\ df[i].home_points = df[i].away_points
       /\ ~df[i].home_win
       /\ df[j].home_win

HasWin == pc \in {"aggregate", "win_percent", "strength", "done", "error"}

\* the positions of the rows of the melted table of game d with tag v
MeltedRowsOf(d, v) ==
  {i \in 1..Len(games) : games[i].game_id = d.game_id /\ games[i].home_or_away = v}

\* C6: in the melted table a row's win is True if and only if home_win is
\* True and the row is the home_team row, or home_win is False and the row is
\* the away_team row; the table has one row per (game, team) pair, holding
\* the team and the home_win value of its own game.
C6_WinFlag ==
  HasWin =>
    /\ \A i \in 1..Len(games) :
         games[i].win <=>
           \/ games[i].home_win /\ games[i].home_or_away = "home_team"
           \/ ~games[i].home_win /\ games[i].home_or_away = "away_team"
    /\ Len(games) = 2 * Len(df)
    /\ \A n \in 1..Len(df) : \A v \in {"away_team", "home_team"} :
         /\ Cardinality(MeltedRowsOf(df[n], v)) = 1
         /\ \A i \in MeltedRowsOf(df[n], v) :
              /\ games[i].team = df[n][v]
              /\ games[i].home_win = df[n].home_win
              /\ games[i].date = df[n].date

\* the melted table holds a winning home row, a winning away row and a
\* losing row of each kind
C6_Witness ==
  /\ pc = "aggregate"
  /\ \A v \in {"away_team", "home_team"} : \A b \in BOOLEAN :
       \E i \in 1..Len(games) :
         games[i].home_or_away = v /\ games[i].win = b /\ ~IsNA(games[i].team)

Aggregated == pc \in {"win_percent", "strength", "done", "error"}

\* the rows of the melted table of team t with tag v
PairRows(t, v) ==
  {i \in 1..Len(games) : games[i].team = Some(t) /\ games[i].home_or_away = v}

\* C5: wins has exactly one row per (team, home_or_away) pair that occurs in
\* the melted table; its n_games is the number of melted rows of the pair,
\* its n_wins the number of those with win True and win_pct = n_wins /
\* n_games; so 0 <= n_wins <= n_games and n_games >= 1 in every row of wins.
C5_WinAggregation ==
  Aggregated =>
    /\ \A t \in Teams : \A v \in {"away_team", "home_team"} :
         LET rows == PairRows(t, v)
             found == {w \in wins : w.team = t /\ w.home_or_away = v}
         IN  /\ Cardinality(found) = IF rows = {} THEN 0 ELSE 1
             /\ \A w \in found :
                  /\ w.n_games = Cardinality(rows)
                  /\ w.n_wins = Cardinality({i \in rows : games[i].win})
                  /\ w.win_pct[2] > 0
                  /\ w.win_pct[1] * w.n_games = w.n_wins * w.win_pct[2]
    /\ \A w \in wins :
         /\ w.team \in Teams
         /\ w.home_or_away \in {"away_team", "home_team"}
         /\ 0 <= w.n_wins /\ w.n_wins <= w.n_games /\ w.n_games >= 1

\* a team with two home games of which it won one, and a pair that does not
\* occur in the melted table
C5_Witness ==
  /\ pc = "win_percent"
  /\ \E w \in wins : w.n_games = 2 /\ w.n_wins = 1 /\ w.home_or_away = "home_team"
  /\ \E t \in Teams : PairRows(t, "away_team") = {}

HasWinPercent == pc \in {"strength", "done", "error"}

\* the rows of wins of team t
WinsOf(t) == {w \in wins : w.team = t}

TotalWins(t) == SumField(WinsOf(t), "n_wins")

TotalGames(t) == SumField(WinsOf(t), "n_games")

\* win_percent has one entry per team, the team's total wins over its total
\* games, between 0 and 1
WinPercentIsTotal ==
  /\ DOMAIN win_percent = {w.team : w \in wins}
  /\ \A t \in DOMAIN win_percent :
       /\ win_percent[t][2] > 0
       /\ win_percent[t][1] * TotalGames(t) = TotalWins(t) * win_percent[t][2]
       /\ 0 <= win_percent[t][1] /\ win_percent[t][1] <= win_percent[t][2]

\* win_percent of t equals the unweighted mean (h.win_pct + a.win_pct) / 2
EqualsUnweightedMean(t, h, a) ==
  win_percent[t][1] * (2 * h.n_games * a.n_games)
    = win_percent[t][2] * (h.n_wins * a.n_games + a.n_wins * h.n_games)

\* C8 as stated: win_percent has one entry per team, the team's total wins
\* over its total games from wins, between 0 and 1, and it is not the
\* unweighted mean of the home and away win_pct when the team's home and away
\* game counts differ.
C8_WinPercentNotMean ==
  HasWinPercent =>
    /\ WinPercentIsTotal
    /\ \A h, a \in wins :
         (/\ h.team = a.team
          /\ h.home_or_away = "home_team" /\ a.home_or_away = "away_team"
          /\ h.n_games # a.n_games)
         => ~EqualsUnweightedMean(h.team, h, a)

\* C8 amended: win_percent has one entry per team, the team's total wins over
\* its total games from wins, between 0 and 1; it differs from the unweighted
\* mean of the home and away win_pct exactly when the team's home and away
\* game counts differ and its home and away win_pct differ.
C8_WinPercentAmended ==
  HasWinPercent =>
    /\ WinPercentIsTotal
    /\ \A h, a \in wins :
         (/\ h.team = a.team
          /\ h.home_or_away = "home_team" /\ a.home_or_away = "away_team")
         => (~EqualsUnweightedMean(h.team, h, a)
               <=> (h.n_games # a.n_games /\ h.win_pct # a.win_pct))

\* a team with different home and away game counts and different home and
\* away win_pct
C8_Witness ==
  /\ pc = "strength"
  /\ \E h, a \in wins :
       /\ h.team = a.team
       /\ h.home_or_away = "home_team" /\ a.home_or_away = "away_team"
       /\ h.n_games # a.n_games
       /\ h.win_pct # a.win_pct
       /\ ~EqualsUnweightedMean(h.team, h, a)

\* C7: for every game of df, home_strength is the win_percent of the game's
\* home team and away_strength that of its away team, win_percent having an
\* entry for every team of any game; point_diff = home_points - away_points
\* and rest_diff = home_rest - away_rest (missing when an operand is); the
\* join adds no rows and removes none.
C7_StrengthJoin ==
  pc = "done" =>
    /\ \A i \in 1..Len(df) :
         /\ \A t \in Teams :
              /\ df[i].home_team = Some(t) =>
                   t \in DOMAIN win_percent /\ df[i].home_strength = Some(win_percent[t])
              /\ df[i].away_team = Some(t) =>
                   t \in DOMAIN win_percent /\ df[i].away_strength = Some(win_percent[t])
         /\ IsNA(df[i].home_team) => IsNA(df[i].home_strength)
         /\ IsNA(df[i].away_team) => IsNA(df[i].away_strength)
         /\ \A h, a \in Points :
              (df[i].home_points = Some(h) /\ df[i].away_points = Some(a))
              => df[i].point_diff = Some(h - a)
         /\ (IsNA(df[i].home_points) \/ IsNA(df[i].away_points)) => IsNA(df[i].point_diff)
         /\ IF IsNA(df[i].home_rest) \/ IsNA(df[i].away_rest)
            THEN IsNA(df[i].rest_diff)
            ELSE df[i].rest_diff = Some(Val(df[i].home_rest) - Val(df[i].away_rest))
    /\ 2 * Len(df) = Len(tidy)
    /\ Keys(df) = Keys(tidy)

\* a game whose two teams have different strengths, with both its rest
\* values present and different, and a game without rest_diff
C7_Witness ==
  /\ pc = "done"
  /\ \E i, j \in 1..Len(df) :
       /\ ~IsNA(df[i].home_strength) /\ ~IsNA(df[i].away_strength)
       /\ df[i].home_strength # df[i].away_strength
       /\ ~IsNA(df[i].rest_diff) /\ df[i].rest_diff # Some(0)
       /\ ~IsNA(df[i].point_diff) /\ df[i].point_diff # Some(0)
       /\ IsNA(df[j].rest_diff)

\* the positions of the rows of the melted table of game d
GameRowsOf(d) == {i \in 1..Len(games) : games[i].game_id = d.game_id}

\* the positions of the games of df whose column f (a team) is missing
WithoutTeam(f) == {n \in 1..Len(df) : IsNA(df[n][f])}

\* the games of df won by the home team: more home points than away points
HomeWon == {n \in 1..Len(df) :
              /\ ~IsNA(df[n].home_points) /\ ~IsNA(df[n].away_points)
              /\ Val(df[n].home_points) > Val(df[n].away_points)}

\* every game has two melted rows of which exactly one has win True: the
\* home_team row when the home team has more points, the away_team row
\* otherwise (a tie, or missing points)
OneWinnerPerGame ==
  \A n \in 1..Len(df) :
    /\ Cardinality(GameRowsOf(df[n])) = 2
    /\ Cardinality({i \in GameRowsOf(df[n]) : games[i].win}) = 1
    /\ \A i \in GameRowsOf(df[n]) :
         games[i].win =>
           games[i].home_or_away = IF n \in HomeWon THEN "home_team" ELSE "away_team"

\* C11 as stated: for every game exactly one of its two melted rows has win
\* True (a tied game counts as an away win); the sum of n_wins over the rows
\* of wins equals the number of games and the sum of n_games twice the number
\* of games.
C11_OneWinPerGameTotals ==
  Aggregated =>
    /\ OneWinnerPerGame
    /\ SumField(wins, "n_wins") = Len(df)
    /\ SumField(wins, "n_games") = 2 * Len(df)

\* C11 amended: for every game exactly one of its two melted rows has win
\* True (the away row for a tie or for missing points); the sum of n_wins over
\* the rows of wins is the number of games whose winning team is not missing
\* and the sum of n_games is twice the number of games less the number of
\* missing team fields.
C11_OneWinPerGameAmended ==
  Aggregated =>
    /\ OneWinnerPerGame
    /\ SumField(wins, "n_wins")
         = Len(df) - Cardinality((HomeWon \cap WithoutTeam("home_team"))
                                   \cup (WithoutTeam("away_team") \ HomeWon))
    /\ SumField(wins, "n_games")
         = 2 * Len(df) - Cardinality(WithoutTeam("home_team"))
                       - Cardinality(WithoutTeam("away_team"))

\* the aggregate of a table with a tied game, a game won by the home team and
\* a game whose winning away team is missing
C11_Witness ==
  /\ pc = "win_percent"
  /\ \E n \in 1..Len(df) :
       ~IsNA(df[n].home_points) /\ df[n].home_points = df[n].away_points
  /\ HomeWon # {}
  /\ WithoutTeam("away_team") \ HomeWon # {}
  /\ SumField(wins, "n_wins") = Len(df) - 1

\* C12 as stated: every rest value of tidy is at least 0; within each team
\* the rows of tidy are in strictly increasing date order, so each gap is
\* measured to the team's chronologically previous game.
C12_RestNeverNegative ==
  TidyHasRest =>
    /\ \A i \in 1..Len(tidy) : ~IsNA(tidy[i].rest) => Val(tidy[i].rest) >= 0
    /\ \A t \in Teams :
         LET rows == TeamRows(t)
         IN  \A p \in 2..Len(rows) :
               (~IsNA(rows[p].date) /\ ~IsNA(rows[p - 1].date))
               => Val(rows[p - 1].date) < Val(rows[p].date)

\* a file whose second game is earlier than its first: the team's later row
\* in tidy has the earlier date and a rest below -1
C12_EarlierGameLater ==
  /\ pc = "pivot"
  /\ \E i \in 1..Len(tidy) : ~IsNA(tidy[i].rest) /\ Val(tidy[i].rest) < -1

====
